---- MODULE Spec2Model ----
(***************************************************************************)
(* LSB steganography tool (stego.py): bit conversion, payload framing,     *)
(* embedding into pixel samples, extraction by end-marker scan.            *)
(*                                                                         *)
(* Bytes and samples are integers 0..255, bits are 0/1, byte strings and   *)
(* pixel buffers are sequences (1-based here, 0-based in the source).      *)
(* File names are sequences of Unicode code points; paths are sequences of *)
(* one-character strings.                                                  *)
(***************************************************************************)
EXTENDS Integers, Sequences, FiniteSets, TLC

VARIABLES
    command,            \* subcommand of the run: "hide" or "reveal"
    image_path,         \* hide: path of the carrier image
    output_image_path,  \* hide: path of the stego image to write
    carrier,            \* flattened RGB samples of the image given to the run
    secret_exists,      \* whether the secret file can be opened
    secret_name,        \* basename of the secret file (code points)
    secret_data,        \* content of the secret file (bytes)
    enc_result,         \* outcome of encode_file ("none" before it ran)
    message_bits,       \* encode_file: bits of the framed payload
    pixels_flat,        \* encode_file: sample buffer after the embedding loop
    image_saved,        \* encode_file: an image was saved at output_image_path
    dec_src,            \* which image decode_file was given ("none" before)
    dec_result,         \* outcome of decode_file
    scanned,            \* decode_file: number of samples the scan loop read
    data_payload_bytes, \* decode_file: bytes rebuilt before the end marker
    file_name,          \* decode_file: decoded file name (code points)
    file_data,          \* decode_file: extracted content (bytes)
    dir_created,        \* decode_file: output directory exists
    file_written,       \* decode_file: the extracted file was written
    bc_pc,              \* bit codec run: "off", "in", "bits", "done"
    bc_in,              \* bit codec run: input bytes
    bc_bits,            \* bit codec run: bytes_to_bits(bc_in)
    bc_out              \* bit codec run: bits_to_bytes(bc_bits)

vars == <<command, image_path, output_image_path, carrier, secret_exists, secret_name,
          secret_data, enc_result, message_bits, pixels_flat, image_saved,
          dec_src, dec_result, scanned, data_payload_bytes, file_name,
          file_data, dir_created, file_written, bc_pc, bc_in, bc_bits, bc_out>>

encVars == <<enc_result, message_bits, pixels_flat, image_saved>>
decVars == <<dec_src, dec_result, scanned, data_payload_bytes, file_name,
             file_data, dir_created, file_written>>
inputVars == <<command, image_path, output_image_path, carrier, secret_exists,
               secret_name, secret_data>>
bcVars == <<bc_pc, bc_in, bc_bits, bc_out>>

(***************************************************************************)
(* Program constants                                                       *)
(***************************************************************************)
\* b'END!'
END_FILE_MARKER == <<69, 78, 68, 33>>

\* b'|'
separator == 124

(***************************************************************************)
(* Bit conversion                                                          *)
(***************************************************************************)
\* bin(byte)[2:] : the binary digits of byte, most significant first, no
\* leading zeros ("0" for 0).
RECURSIVE Bin(_)
Bin(n) == IF n < 2 THEN <<n>> ELSE Bin(n \div 2) \o <<n % 2>>

\* str.zfill(width): pad with zeros on the left up to width digits.
RECURSIVE ZFill(_, _)
ZFill(digits, width) ==
    IF Len(digits) >= width THEN digits ELSE ZFill(<<0>> \o digits, width)

\* Mutant of ByteBits: the padding is dropped.
ByteBitsNoPad(byte) == Bin(byte)

\* [int(b) for b in bin(byte)[2:].zfill(8)]
ByteBits(byte) == ZFill(Bin(byte), 8)

RECURSIVE BytesToBitsLoop(_, _, _)
BytesToBitsLoop(data_bytes, k, bits) ==
    IF k > Len(data_bytes) THEN bits
    ELSE BytesToBitsLoop(data_bytes, k + 1, bits \o ByteBits(data_bytes[k]))

bytes_to_bits(data_bytes) == BytesToBitsLoop(data_bytes, 1, <<>>)

\* int(byte_str, 2)
RECURSIVE IntBase2(_)
IntBase2(digits) ==
    IF digits = <<>> THEN 0
    ELSE 2 * IntBase2(SubSeq(digits, 1, Len(digits) - 1)) + digits[Len(digits)]

Min(a, b) == IF a < b THEN a ELSE b

\* for i in range(0, len(bits), 8): chunk bits[i:i+8], kept only when full.
\* i is the 0-based start of the chunk.
RECURSIVE BitsToBytesLoop(_, _, _)
BitsToBytesLoop(bits, i, output_bytes) ==
    IF i >= Len(bits) THEN output_bytes
    ELSE LET byte_bits == SubSeq(bits, i + 1, Min(i + 8, Len(bits)))
         IN  BitsToBytesLoop(bits, i + 8,
                 IF Len(byte_bits) = 8
                 THEN Append(output_bytes, IntBase2(byte_bits))
                 ELSE output_bytes)

\* Mutant of bits_to_bytes: each chunk is read least significant bit first.
RECURSIVE IntBase2Rev(_)
IntBase2Rev(digits) ==
    IF digits = <<>> THEN 0 ELSE digits[1] + 2 * IntBase2Rev(Tail(digits))

RECURSIVE BitsToBytesRevLoop(_, _, _)
BitsToBytesRevLoop(bits, i, output_bytes) ==
    IF i >= Len(bits) THEN output_bytes
    ELSE LET byte_bits == SubSeq(bits, i + 1, Min(i + 8, Len(bits)))
         IN  BitsToBytesRevLoop(bits, i + 8,
                 IF Len(byte_bits) = 8
                 THEN Append(output_bytes, IntBase2Rev(byte_bits))
                 ELSE output_bytes)

bits_to_bytes_lsb_first(bits) == BitsToBytesRevLoop(bits, 0, <<>>)

bits_to_bytes(bits) == BitsToBytesLoop(bits, 0, <<>>)

(***************************************************************************)
(* UTF-8 (str.encode('utf-8') and bytes.decode('utf-8'), strict)           *)
(***************************************************************************)
\* The UTF-8 bytes of one code point (no surrogates: a str naming a file
\* that was opened holds none).
Utf8EncodeChar(cp) ==
    IF cp < 128 THEN <<cp>>
    ELSE IF cp < 2048 THEN <<192 + (cp \div 64), 128 + (cp % 64)>>
    ELSE IF cp < 65536
         THEN <<224 + (cp \div 4096), 128 + ((cp \div 64) % 64), 128 + (cp % 64)>>
    ELSE <<240 + (cp \div 262144), 128 + ((cp \div 4096) % 64),
           128 + ((cp \div 64) % 64), 128 + (cp % 64)>>

RECURSIVE Utf8Encode(_)
Utf8Encode(text) ==
    IF text = <<>> THEN <<>>
    ELSE Utf8EncodeChar(Head(text)) \o Utf8Encode(Tail(text))

IsCont(b) == b >= 128 /\ b <= 191

\* Number of bytes of the well-formed sequence starting at position k of
\* bs, 0 when there is none (strict decoder: no overlong forms, no
\* surrogates, nothing above U+10FFFF).
Utf8SeqLen(bs, k) ==
    LET b0 == bs[k]
        has(n) == k + n - 1 <= Len(bs)
        cont(j) == IsCont(bs[k + j])
    IN  IF b0 < 128 THEN 1
        ELSE IF b0 >= 194 /\ b0 <= 223
             THEN IF has(2) /\ cont(1) THEN 2 ELSE 0
        ELSE IF b0 >= 224 /\ b0 <= 239
             THEN IF /\ has(3)
                     /\ cont(1)
                     /\ cont(2)
                     /\ (b0 = 224 => bs[k + 1] >= 160)
                     /\ (b0 = 237 => bs[k + 1] <= 159)
                  THEN 3 ELSE 0
        ELSE IF b0 >= 240 /\ b0 <= 244
             THEN IF /\ has(4)
                     /\ cont(1)
                     /\ cont(2)
                     /\ cont(3)
                     /\ (b0 = 240 => bs[k + 1] >= 144)
                     /\ (b0 = 244 => bs[k + 1] <= 143)
                  THEN 4 ELSE 0
        ELSE 0

Utf8CodePoint(bs, k, n) ==
    IF n = 1 THEN bs[k]
    ELSE IF n = 2 THEN (bs[k] - 192) * 64 + (bs[k + 1] - 128)
    ELSE IF n = 3
         THEN (bs[k] - 224) * 4096 + (bs[k + 1] - 128) * 64 + (bs[k + 2] - 128)
    ELSE (bs[k] - 240) * 262144 + (bs[k + 1] - 128) * 4096
         + (bs[k + 2] - 128) * 64 + (bs[k + 3] - 128)

\* bytes.decode('utf-8'): [ok |-> TRUE, text |-> code points], or
\* [ok |-> FALSE, ...] where Python raises UnicodeDecodeError.
RECURSIVE Utf8DecodeFrom(_, _, _)
Utf8DecodeFrom(bs, k, text) ==
    IF k > Len(bs) THEN [ok |-> TRUE, text |-> text]
    ELSE LET n == Utf8SeqLen(bs, k)
         IN  IF n = 0 THEN [ok |-> FALSE, text |-> <<>>]
             ELSE Utf8DecodeFrom(bs, k + n, Append(text, Utf8CodePoint(bs, k, n)))

Utf8Decode(bs) == Utf8DecodeFrom(bs, 1, <<>>)

(***************************************************************************)
(* Paths and the extension check of encode_file                            *)
(***************************************************************************)
UpperCase == <<"A", "B", "C", "D", "E", "F", "G", "H", "I", "J", "K", "L", "M",
               "N", "O", "P", "Q", "R", "S", "T", "U", "V", "W", "X", "Y", "Z">>
LowerCase == <<"a", "b", "c", "d", "e", "f", "g", "h", "i", "j", "k", "l", "m",
               "n", "o", "p", "q", "r", "s", "t", "u", "v", "w", "x", "y", "z">>

LowerChar(c) ==
    IF \E i \in 1..Len(UpperCase) : UpperCase[i] = c
    THEN LowerCase[CHOOSE i \in 1..Len(UpperCase) : UpperCase[i] = c]
    ELSE c

\* str.lower()
Lower(path) == [i \in 1..Len(path) |-> LowerChar(path[i])]

\* str.endswith(suffix)
EndsWith(path, suffix) ==
    /\ Len(path) >= Len(suffix)
    /\ SubSeq(path, Len(path) - Len(suffix) + 1, Len(path)) = suffix

\* path.lower().endswith(('.png', '.bmp'))
HasLosslessExt(path) ==
    \/ EndsWith(Lower(path), <<".", "p", "n", "g">>)
    \/ EndsWith(Lower(path), <<".", "b", "m", "p">>)

\* The condition of the step 1 early return, as written:
\* not (carrier is png/bmp  or  output is png/bmp)
ExtensionRejected(carrier_path, out_path) ==
    ~(HasLosslessExt(carrier_path) \/ HasLosslessExt(out_path))

(***************************************************************************)
(* encode_file                                                             *)
(***************************************************************************)
\* file_name + b'|' + secret_data_bytes + END_FILE_MARKER
PayloadBytes(name, secret_data_bytes) ==
    Utf8Encode(name) \o <<separator>> \o secret_data_bytes \o END_FILE_MARKER

\* Mutant of CapacityExceeded: a payload that fills the carrier exactly is
\* refused.
CapacityExceededOffByOne(bits, max_bits) == Len(bits) >= max_bits

\* len(message_bits) > max_bits
CapacityExceeded(bits, max_bits) == Len(bits) > max_bits

\* x & 0b11111110 on an unsigned 8-bit value
ClearLsb(x) == x - (x % 2)

\* x | bit, bit in {0, 1}
OrBit(x, bit) == IF x % 2 = 1 THEN x ELSE x + bit

\* Mutant of EmbedBit: the LSB is not cleared before the OR.
EmbedBitNoClear(current_byte, bit) == OrBit(current_byte, bit)

\* new_byte = current_byte & 0b11111110 ; new_byte |= bit
EmbedBit(current_byte, bit) == OrBit(ClearLsb(current_byte), bit)

\* for i, bit in enumerate(message_bits): pixels_flat[i] = ...
\* Iteration i reads and writes sample i alone, so the buffer after the loop
\* is given sample by sample. (The capacity check has made sure that
\* len(message_bits) <= len(pixels_flat).)
EmbedLoop(pixels, bits) ==
    [i \in 1..Len(pixels) |->
        IF i <= Len(bits) THEN EmbedBit(pixels[i], bits[i]) ELSE pixels[i]]

EncodeFile ==
    /\ command = "hide"
    /\ enc_result = "none"
    /\ IF ExtensionRejected(image_path, output_image_path)
       THEN /\ enc_result' = "UnsupportedFormat"
            /\ UNCHANGED <<message_bits, pixels_flat, image_saved>>
       ELSE IF ~secret_exists
       THEN /\ enc_result' = "SourceNotFound"
            /\ UNCHANGED <<message_bits, pixels_flat, image_saved>>
       ELSE LET payload_bytes == PayloadBytes(secret_name, secret_data)
                bits == bytes_to_bits(payload_bytes)
                data == carrier
                max_bits == Len(data)
            IN  /\ message_bits' = bits
                /\ IF CapacityExceeded(bits, max_bits)
                   THEN /\ enc_result' = "CapacityExceeded"
                        /\ UNCHANGED <<pixels_flat, image_saved>>
                   ELSE /\ pixels_flat' = EmbedLoop(data, bits)
                        /\ image_saved' = TRUE
                        /\ enc_result' = "ok"
    /\ UNCHANGED <<inputVars, decVars, bcVars>>

(***************************************************************************)
(* decode_file                                                             *)
(***************************************************************************)
\* Mutant of MarkerAtTail: the comparison starts one bit too late.
MarkerAtTailLate(secret_bits, marker_bits) ==
    /\ Len(secret_bits) > Len(marker_bits)
    /\ SubSeq(secret_bits, Len(secret_bits) - Len(marker_bits) + 1,
              Len(secret_bits)) = marker_bits

\* Mutant of MarkerAtTail: the marker is only looked for at byte boundaries.
MarkerAtTailAligned(secret_bits, marker_bits) ==
    /\ Len(secret_bits) >= Len(marker_bits)
    /\ Len(secret_bits) % 8 = 0
    /\ SubSeq(secret_bits, Len(secret_bits) - Len(marker_bits) + 1,
              Len(secret_bits)) = marker_bits

\* len(secret_bits) >= marker_len and secret_bits[-marker_len:] == marker_bits
MarkerAtTail(secret_bits, marker_bits) ==
    /\ Len(secret_bits) >= Len(marker_bits)
    /\ SubSeq(secret_bits, Len(secret_bits) - Len(marker_bits) + 1,
              Len(secret_bits)) = marker_bits

\* Mutant of PayloadBits: the marker is not cut off.
PayloadBitsWithMarker(secret_bits, marker_len) == secret_bits

\* secret_bits[:-marker_len]
PayloadBits(secret_bits, marker_len) ==
    SubSeq(secret_bits, 1, Len(secret_bits) - marker_len)

\* secret_bits after the iteration of the scan loop that read sample i
\* (1-based): the LSBs of the first i samples.
SecretBitsAfter(pixels, i) == [k \in 1..i |-> pixels[k] % 2]

\* The scan loop: it breaks in the first iteration whose secret_bits end
\* with the marker; found = FALSE is the for-else branch (no iteration
\* broke). read is the number of samples read.
ScanLoop(pixels, marker_bits) ==
    LET breaks == { i \in 1..Len(pixels) :
                      MarkerAtTail(SecretBitsAfter(pixels, i), marker_bits) }
    IN  IF breaks = {}
        THEN [found |-> FALSE, read |-> Len(pixels), payload |-> <<>>]
        ELSE LET i == CHOOSE m \in breaks : \A n \in breaks : m <= n
             IN  [found |-> TRUE, read |-> i,
                  payload |-> bits_to_bytes(
                      PayloadBits(SecretBitsAfter(pixels, i), Len(marker_bits)))]

\* Mutant of SeparatorIndex: the last separator is taken.
SeparatorIndexLast(payload) ==
    IF \E k \in 1..Len(payload) : payload[k] = separator
    THEN CHOOSE k \in 1..Len(payload) :
            /\ payload[k] = separator
            /\ \A j \in (k + 1)..Len(payload) : payload[j] # separator
    ELSE 0

\* data_payload_bytes.index(separator), 1-based; 0 where Python raises
\* ValueError.
SeparatorIndex(payload) ==
    IF \E k \in 1..Len(payload) : payload[k] = separator
    THEN CHOOSE k \in 1..Len(payload) :
            /\ payload[k] = separator
            /\ \A j \in 1..(k - 1) : payload[j] # separator
    ELSE 0

\* open(os.path.join(output_dir, file_name), 'wb') fails for an empty name
\* (the path is the directory) and for a name holding a NUL character.
OpenError(name) ==
    IF name = <<>> THEN "IsADirectoryError"
    ELSE IF \E k \in 1..Len(name) : name[k] = 0 THEN "ValueError"
    ELSE "none"

\* decode_file on the sample buffer pixels of the image called src.
DecodeFile(src, pixels) ==
    /\ dec_result = "none"
    /\ dec_src' = src
    /\ LET marker_bits == bytes_to_bits(END_FILE_MARKER)
           scan == ScanLoop(pixels, marker_bits)
           separator_index == SeparatorIndex(scan.payload)
           name == Utf8Decode(SubSeq(scan.payload, 1, separator_index - 1))
           data == SubSeq(scan.payload, separator_index + 1, Len(scan.payload))
       IN  /\ scanned' = scan.read
           /\ IF ~scan.found
              THEN /\ dec_result' = "MarkerNotFound"
                   /\ UNCHANGED <<data_payload_bytes, file_name, file_data,
                                  dir_created, file_written>>
              ELSE /\ data_payload_bytes' = scan.payload
                   /\ IF separator_index = 0
                      THEN /\ dec_result' = "FramingError"
                           /\ UNCHANGED <<file_name, file_data, dir_created,
                                          file_written>>
                      ELSE IF ~name.ok
                      THEN /\ dec_result' = "UnicodeDecodeError"
                           /\ UNCHANGED <<file_name, file_data, dir_created,
                                          file_written>>
                      ELSE /\ file_name' = name.text
                           /\ file_data' = data
                           /\ dir_created' = TRUE
                           /\ IF OpenError(name.text) = "none"
                              THEN /\ file_written' = TRUE
                                   /\ dec_result' = "ok"
                              ELSE /\ file_written' = FALSE
                                   /\ dec_result' = OpenError(name.text)
    /\ UNCHANGED <<inputVars, encVars, bcVars>>

\* A reveal run: decode_file on the image named on the command line, which
\* can be any image.
DecodeCarrier ==
    /\ command = "reveal"
    /\ DecodeFile("carrier", carrier)

\* reveal on the image a hide run wrote. PNG and BMP store the samples
\* exactly, so what is read back is pixels_flat; an image saved under another
\* extension is not followed further.
DecodeStego ==
    /\ command = "hide"
    /\ image_saved
    /\ HasLosslessExt(output_image_path)
    /\ DecodeFile("stego", pixels_flat)

(***************************************************************************)
(* Bit codec applied on its own                                            *)
(***************************************************************************)
BytesToBits ==
    /\ bc_pc = "in"
    /\ bc_bits' = bytes_to_bits(bc_in)
    /\ bc_pc' = "bits"
    /\ UNCHANGED <<inputVars, encVars, decVars, bc_in, bc_out>>

BitsToBytes ==
    /\ bc_pc = "bits"
    /\ bc_out' = bits_to_bytes(bc_bits)
    /\ bc_pc' = "done"
    /\ UNCHANGED <<inputVars, encVars, decVars, bc_in, bc_bits>>

(***************************************************************************)
(* Bounds and input sets                                                   *)
(***************************************************************************)
\* Largest carrier image, in pixels (3 samples each).
MaxPixels == 32

\* Longest secret content drawn from ContentBytes.
MaxContentLen == 2

\* Most bits put in front of a hand-made LSB stream.
MaxPad == 1

\* Longest byte string of a bit codec run drawn from CodecBytes.
MaxCodecLen == 2

SeqsUpTo(S, n) == UNION {[1..k -> S] : k \in 0..n}

ImagePaths == { <<"c", ".", "P", "N", "G">>, <<"c", ".", "j", "p", "g">> }

OutputPaths == { <<"o", ".", "b", "m", "p">>, <<"o", ".", "j", "p", "g">> }

\* "A", "A|B", "e-acute" (two UTF-8 bytes), "END!"
Names == { <<65>>, <<65, 124, 66>>, <<233>>, END_FILE_MARKER }

ContentBytes == {65, 124}

\* 0x22 0xA7 0x22 0x10 0x80: the marker bits shifted right by one bit.
ShiftedMarker == <<34, 167, 34, 16, 128>>

\* Contents holding the marker: alone, first, in the middle, after a byte
\* that is no UTF-8, and at a bit offset that is no multiple of 8.
MarkerContents ==
    { END_FILE_MARKER,
      END_FILE_MARKER \o <<65>>,
      <<65>> \o END_FILE_MARKER \o <<65>>,
      <<255>> \o END_FILE_MARKER,
      ShiftedMarker }

Contents == SeqsUpTo(ContentBytes, MaxContentLen) \cup MarkerContents

\* A carrier of px pixels whose samples follow a fixed pattern.
PatternCarrier(px, seed) == [i \in 1..(3 * px) |-> (seed * i) % 256]

\* Sample patterns: an odd seed gives alternating LSBs and varied upper bits.
Seeds == {37}

\* Byte strings put in front of the marker in hand-made LSB streams:
\* no separator, a good frame, a name that is no UTF-8, a name cut in the
\* middle of a two-byte character, an empty name, nothing.
RawFrames ==
    { <<65, 65>>, <<65, 124, 65, 124>>, <<255, 124, 65>>, <<195, 124, 65>>,
      <<124, 65>>, <<>> }

\* A carrier whose LSBs are pad zero bits, the bits of raw, the marker, and
\* zero bits up to a whole number of pixels plus one pixel.
RawCarrier(pad, raw) ==
    LET lsbs == [i \in 1..pad |-> 0] \o bytes_to_bits(raw \o END_FILE_MARKER)
        n == 3 * ((Len(lsbs) + 2) \div 3) + 3
    IN  [i \in 1..n |->
            2 * ((37 * i) % 128) + (IF i <= Len(lsbs) THEN lsbs[i] ELSE 0)]

Carriers ==
    { PatternCarrier(px, seed) : px \in 1..MaxPixels, seed \in Seeds }
    \cup { RawCarrier(pad, raw) : pad \in 0..MaxPad, raw \in RawFrames }

CodecBytes == {0, 1, 33, 124, 128, 254, 255}

CodecInputs == { <<b>> : b \in 0..255 } \cup SeqsUpTo(CodecBytes, MaxCodecLen)

(***************************************************************************)
(* Specifications                                                          *)
(***************************************************************************)
InitResults ==
    /\ enc_result = "none"
    /\ message_bits = <<>>
    /\ pixels_flat = <<>>
    /\ image_saved = FALSE
    /\ dec_src = "none"
    /\ dec_result = "none"
    /\ scanned = 0
    /\ data_payload_bytes = <<>>
    /\ file_name = <<>>
    /\ file_data = <<>>
    /\ dir_created = FALSE
    /\ file_written = FALSE
    /\ bc_bits = <<>>
    /\ bc_out = <<>>

\* hide <carrier_image> <secret_file> <output_image>
InitHide ==
    /\ command = "hide"
    /\ image_path \in ImagePaths
    /\ output_image_path \in OutputPaths
    /\ carrier \in Carriers
    /\ \/ /\ secret_exists = TRUE
          /\ secret_name \in Names
          /\ secret_data \in Contents
       \/ /\ secret_exists = FALSE
          /\ secret_name = <<65>>
          /\ secret_data = <<>>

\* reveal <image_stego>
InitReveal ==
    /\ command = "reveal"
    /\ image_path \in ImagePaths
    /\ output_image_path = <<>>
    /\ carrier \in Carriers
    /\ secret_exists = FALSE
    /\ secret_name = <<>>
    /\ secret_data = <<>>

Init ==
    /\ InitHide \/ InitReveal
    /\ bc_pc = "off"
    /\ bc_in = <<>>
    /\ InitResults

Next == EncodeFile \/ DecodeCarrier \/ DecodeStego

Spec == Init /\ [][Next]_vars

\* The bit codec applied to a byte string.
InitBitCodec ==
    /\ command = "none"
    /\ image_path = <<"c", ".", "p", "n", "g">>
    /\ output_image_path = <<"o", ".", "p", "n", "g">>
    /\ carrier = <<>>
    /\ secret_exists = FALSE
    /\ secret_name = <<>>
    /\ secret_data = <<>>
    /\ bc_pc = "in"
    /\ bc_in \in CodecInputs
    /\ InitResults

NextBitCodec == BytesToBits \/ BitsToBytes

SpecBitCodec == InitBitCodec /\ [][NextBitCodec]_vars

(***************************************************************************)
(* Vocabulary of the properties, written without the program's operators    *)
(***************************************************************************)
\* The 32 bits of 'END!', most significant bit of each byte first.
MarkerPattern ==
    <<0, 1, 0, 0, 0, 1, 0, 1,   0, 1, 0, 0, 1, 1, 1, 0,
      0, 1, 0, 0, 0, 1, 0, 0,   0, 0, 1, 0, 0, 0, 0, 1>>

Pow2(k) == IF k = 0 THEN 1 ELSE IF k = 1 THEN 2 ELSE IF k = 2 THEN 4
           ELSE IF k = 3 THEN 8 ELSE IF k = 4 THEN 16 ELSE IF k = 5 THEN 32
           ELSE IF k = 6 THEN 64 ELSE 128

\* Bit k (1 = most significant, 8 = least) of a byte.
BitOf(byte, k) == (byte \div Pow2(8 - k)) % 2

\* Bit i (1-based) of the MSB-first expansion of a byte string.
StreamBit(bytes, i) == BitOf(bytes[((i - 1) \div 8) + 1], ((i - 1) % 8) + 1)

\* The LSBs of samples n-32 .. n-1 (0-based) of buf are the marker bits.
MarkerEndsAt(buf, n) ==
    /\ n >= 32
    /\ n <= Len(buf)
    /\ \A k \in 1..32 : buf[n - 32 + k] % 2 = MarkerPattern[k]

\* The marker bits end at bit n of the expansion of a byte string.
MarkerEndsAtBit(bytes, n) ==
    /\ n >= 32
    /\ n <= 8 * Len(bytes)
    /\ \A k \in 1..32 : StreamBit(bytes, n - 32 + k) = MarkerPattern[k]

\* The byte whose bits are the LSBs of samples 8(j-1)+1 .. 8j of buf.
LsbByte(buf, j) ==
    LET lsb(i) == buf[i] % 2
    IN  128 * lsb(8 * j - 7) + 64 * lsb(8 * j - 6) + 32 * lsb(8 * j - 5)
        + 16 * lsb(8 * j - 4) + 8 * lsb(8 * j - 3) + 4 * lsb(8 * j - 2)
        + 2 * lsb(8 * j - 1) + lsb(8 * j)

IsPrefix(a, b) == Len(a) <= Len(b) /\ SubSeq(b, 1, Len(a)) = a

HasSeparator(bytes) == \E k \in 1..Len(bytes) : bytes[k] = 124

\* Position of the first '|' of a byte string that has one.
FirstSeparator(bytes) ==
    CHOOSE k \in 1..Len(bytes) :
        bytes[k] = 124 /\ \A j \in 1..(k - 1) : bytes[j] # 124

\* The frame of the secret file: name, '|', content, 'END!'.
FrameBody == Utf8Encode(secret_name) \o <<124>> \o secret_data
Frame == FrameBody \o <<69, 78, 68, 33>>
FrameLen == 8 * (Len(Utf8Encode(secret_name)) + 1 + Len(secret_data) + 4)

\* The image decode_file was given.
DecodedImage == IF dec_src = "stego" THEN pixels_flat ELSE carrier

\* decode_file got past the marker scan.
MarkerFound == dec_result \notin {"none", "MarkerNotFound"}

\* decode_file got past the split into name and content.
Parsed == dec_result \in {"ok", "IsADirectoryError", "ValueError"}

(***************************************************************************)
(* C1                                                                      *)
(***************************************************************************)
\* C1 as stated: decoding the image written by a successful encode gives
\* back exactly the name and the content of the secret file, whatever the
\* name and the content are.
C1_RecoveryAlways ==
    dec_src = "stego" =>
        /\ dec_result = "ok"
        /\ file_name = secret_name
        /\ file_data = secret_data

\* C1 amended: decoding the image written by a successful encode gives back
\* exactly the name and the content, provided the name holds no '|' and the
\* 32 marker bits occur in the bits of the frame only at its very end.
C1_RecoveryWithoutCollision ==
    ( /\ dec_src = "stego"
      /\ ~HasSeparator(Utf8Encode(secret_name))
      /\ \A n \in 32..(FrameLen - 1) : ~MarkerEndsAtBit(Frame, n) )
    => /\ dec_result = "ok"
       /\ file_written
       /\ file_name = secret_name
       /\ file_data = secret_data

C1_Witness ==
    /\ dec_src = "stego"
    /\ dec_result = "ok"
    /\ secret_data = <<124>>
    /\ file_data = <<124>>
    /\ file_name = secret_name
    /\ \A n \in 32..(FrameLen - 1) : ~MarkerEndsAtBit(Frame, n)

(***************************************************************************)
(* C2                                                                      *)
(***************************************************************************)
\* C2: once the format and source checks are passed, encode succeeds when
\* the payload has at most as many bits as the carrier has samples (equality
\* included) and fails with CapacityExceeded when it has more; on that
\* failure no sample buffer was written and no image saved.
C2_CapacityBoundary ==
    enc_result \notin {"none", "UnsupportedFormat", "SourceNotFound"} =>
        /\ FrameLen <= Len(carrier) =>
              /\ enc_result = "ok"
              /\ image_saved
        /\ FrameLen > Len(carrier) =>
              /\ enc_result = "CapacityExceeded"
              /\ ~image_saved
              /\ pixels_flat = <<>>

C2_Witness ==
    /\ enc_result = "ok"
    /\ image_saved
    /\ FrameLen = Len(carrier)

\* The other side of the boundary: one bit too many.
C2_OneBitMore ==
    /\ enc_result = "CapacityExceeded"
    /\ FrameLen = Len(carrier) + 1

(***************************************************************************)
(* C3                                                                      *)
(***************************************************************************)
\* C3 as stated: encode is rejected with UnsupportedFormat, with nothing
\* written, exactly when the carrier path or the output path has an
\* extension other than .png or .bmp.
C3_RejectsEitherBadExtension ==
    enc_result # "none" =>
        /\ (enc_result = "UnsupportedFormat") <=>
              ~(HasLosslessExt(image_path) /\ HasLosslessExt(output_image_path))
        /\ enc_result = "UnsupportedFormat" =>
              (~image_saved /\ pixels_flat = <<>>)

(***************************************************************************)
(* C4                                                                      *)
(***************************************************************************)
\* C4: bytes_to_bits(B) has 8 * len(B) bits, byte j giving bits 8(j-1)+1..8j
\* most significant first, and bits_to_bytes of it is B again.
C4_BitCodecRoundTrip ==
    /\ bc_pc \in {"bits", "done"} =>
          /\ Len(bc_bits) = 8 * Len(bc_in)
          /\ \A j \in 1..Len(bc_in) : \A k \in 1..8 :
                bc_bits[8 * (j - 1) + k] = BitOf(bc_in[j], k)
    /\ bc_pc = "done" => bc_out = bc_in

C4_Witness ==
    /\ bc_pc = "done"
    /\ bc_in = <<1, 128>>
    /\ bc_bits = <<0, 0, 0, 0, 0, 0, 0, 1, 1, 0, 0, 0, 0, 0, 0, 0>>
    /\ bc_out = <<1, 128>>

(***************************************************************************)
(* C5                                                                      *)
(***************************************************************************)
\* C5 as stated: when the bytes rebuilt before the end marker hold no '|',
\* or the bytes before the first '|' are no valid UTF-8, decode returns the
\* framing failure to its caller and writes no file.
C5_FramingFailuresReturned ==
    ( /\ MarkerFound
      /\ \/ ~HasSeparator(data_payload_bytes)
         \/ ~Utf8Decode(SubSeq(data_payload_bytes, 1,
                               FirstSeparator(data_payload_bytes) - 1)).ok )
    => /\ dec_result = "FramingError"
       /\ ~file_written

(***************************************************************************)
(* C6                                                                      *)
(***************************************************************************)
\* C6: decode fails with MarkerNotFound exactly when no n in 32..len(buffer)
\* has the marker bits in the LSBs of samples n-32..n-1 (so always when the
\* buffer has fewer than 32 samples), and then no directory or file is
\* created.
C6_MarkerNotFoundIff ==
    dec_result # "none" =>
        /\ (dec_result = "MarkerNotFound") <=>
              ~\E n \in 32..Len(DecodedImage) : MarkerEndsAt(DecodedImage, n)
        /\ Len(DecodedImage) < 32 => dec_result = "MarkerNotFound"
        /\ dec_result = "MarkerNotFound" =>
              /\ ~dir_created
              /\ ~file_written
              /\ scanned = Len(DecodedImage)

C6_Witness ==
    /\ dec_result = "MarkerNotFound"
    /\ Len(DecodedImage) >= 32
    /\ ~dir_created
    /\ ~file_written

(***************************************************************************)
(* C7                                                                      *)
(***************************************************************************)
\* C7: after a successful encode of a payload of L bits, sample i < L has
\* payload bit i as its LSB and its upper 7 bits as before, every sample
\* from L on is as before, and the buffer has the same length.
C7_EmbeddingFrame ==
    enc_result = "ok" =>
        /\ Len(pixels_flat) = Len(carrier)
        /\ \A i \in 1..Len(carrier) :
              IF i <= FrameLen
              THEN /\ pixels_flat[i] % 2 = StreamBit(Frame, i)
                   /\ pixels_flat[i] \div 2 = carrier[i] \div 2
              ELSE pixels_flat[i] = carrier[i]

C7_Witness ==
    /\ enc_result = "ok"
    /\ Len(carrier) > FrameLen
    /\ \E i \in 1..FrameLen : pixels_flat[i] = carrier[i] + 1
    /\ \E i \in 1..FrameLen : pixels_flat[i] = carrier[i] - 1
    /\ \E i \in 1..FrameLen : pixels_flat[i] = carrier[i]

(***************************************************************************)
(* C8                                                                      *)
(***************************************************************************)
\* C8: decode stops at the smallest n >= 32 where the last 32 LSBs read are
\* the marker bits, at any bit offset; it has then read exactly n samples
\* and the payload is the whole bytes of the first n-32 LSBs. So an image
\* from encode whose frame bits hold the marker before the terminator is
\* cut at that earlier position.
C8_EarliestMatch ==
    /\ MarkerFound =>
          /\ MarkerEndsAt(DecodedImage, scanned)
          /\ \A n \in 32..(scanned - 1) : ~MarkerEndsAt(DecodedImage, n)
          /\ Len(data_payload_bytes) = (scanned - 32) \div 8
          /\ \A j \in 1..Len(data_payload_bytes) :
                data_payload_bytes[j] = LsbByte(DecodedImage, j)
    /\ ( /\ dec_src = "stego"
         /\ \E n \in 32..(FrameLen - 1) : MarkerEndsAtBit(Frame, n) )
       => /\ scanned < FrameLen
          /\ MarkerEndsAtBit(Frame, scanned)

C8_Witness ==
    /\ dec_src = "stego"
    /\ MarkerFound
    /\ scanned < FrameLen
    /\ scanned % 8 # 0
    /\ Len(DecodedImage) > scanned

(***************************************************************************)
(* C9                                                                      *)
(***************************************************************************)
\* C9: when the rebuilt bytes hold a '|', the recovered name is the bytes
\* before the first '|' and the recovered content every byte after it. So a
\* name with a '|' in it comes back as its part before the first '|', and
\* the content comes back as the rest of the name, a '|' and the content
\* (as far as the scan went).
C9_FirstSeparatorSplit ==
    /\ Parsed =>
          /\ HasSeparator(data_payload_bytes)
          /\ LET idx == FirstSeparator(data_payload_bytes)
             IN  /\ Utf8Encode(file_name) = SubSeq(data_payload_bytes, 1, idx - 1)
                 /\ file_data = SubSeq(data_payload_bytes, idx + 1,
                                       Len(data_payload_bytes))
    /\ ( /\ Parsed
         /\ dec_src = "stego"
         /\ HasSeparator(secret_name) )
       => LET p == FirstSeparator(secret_name)
              rest == SubSeq(secret_name, p + 1, Len(secret_name))
              whole == Utf8Encode(rest) \o <<124>> \o secret_data
          IN  /\ file_name = SubSeq(secret_name, 1, p - 1)
              /\ IsPrefix(file_data, whole)
              /\ scanned = FrameLen => file_data = whole

C9_Witness ==
    /\ dec_src = "stego"
    /\ dec_result = "ok"
    /\ secret_name = <<65, 124, 66>>
    /\ secret_data = <<124>>
    /\ file_name = <<65>>
    /\ file_data = <<66, 124, 124>>

(***************************************************************************)
(* C10                                                                     *)
(***************************************************************************)
\* C10: decoding an image written by a successful encode never reports
\* MarkerNotFound, and the bytes it rebuilds are a prefix of name + '|' +
\* content; so when the name holds no '|' and decode succeeds, the name is
\* the original one and the content a prefix of the original content.
C10_NoOverRead ==
    dec_src = "stego" =>
        /\ dec_result # "MarkerNotFound"
        /\ scanned <= FrameLen
        /\ IsPrefix(data_payload_bytes, FrameBody)
        /\ (dec_result = "ok" /\ ~HasSeparator(secret_name)) =>
              /\ file_name = secret_name
              /\ IsPrefix(file_data, secret_data)

C10_Witness ==
    /\ dec_src = "stego"
    /\ dec_result = "ok"
    /\ ~HasSeparator(secret_name)
    /\ file_name = secret_name
    /\ Len(file_data) < Len(secret_data)

====
